---- MODULE Spec2Model ----
(***************************************************************************)
(* Model of packages/utils-connector-tools/src/requester.ts: the Requester *)
(* class (redirect following with loop and depth detection, wire capture   *)
(* of the response body, the decompression cascade) together with the      *)
(* RedirectManager it owns.                                                *)
(*                                                                         *)
(* URIs are integers.  A Buffer is a sequence of abstract bytes: byte 0 is *)
(* plain content, and a leading marker byte says which decoder accepts the *)
(* buffer (1 brotli, 2 gzip, 3 zlib-wrapped deflate, 4 raw deflate).  A    *)
(* decoder that accepts a buffer strips the marker; any other decoder      *)
(* throws on it.                                                           *)
(***************************************************************************)
EXTENDS Integers, Sequences, FiniteSets, TLC

\* ------------------------------------------------------------------ bounds
NumUris == 3          \* network URIs 1..NumUris of the general environment
ChainLen == 11        \* redirects of the chain environment: 1 -> 2 -> ... -> ChainLen + 1
MaxBodyLen == 2       \* longest response body a server sends
MaxLen == 3           \* longest buffer handed to decompressResponse directly
MaxTokens == 2        \* most tokens of a Content-Encoding declaration

\* ------------------------------------------------------- program constants
DefaultMaxRedirects == 10
validRedirects == {301, 302, 303, 307, 308}

\* --------------------------------------------------------- special values
NoUri == -1                \* no URI (absent variable)
DataUri == 0               \* the URI 'data:text/plain;charset=utf-8,Hello'
Null == << -1 >>           \* JavaScript null where a Buffer or text is expected
Undefined == << -2 >>      \* a declared, never assigned Buffer variable
NoLocation == -1           \* response without a Location header
NoHeader == << "<absent>" >>   \* normalizeHeaderValue found no content-encoding

Throws == << -3 >>         \* a rejected promise (an exception) in place of a value

IsBuffer(b) == b # Null /\ b # Undefined /\ b # Throws

\* ------------------------------------------------------------ environment
Uris(m) == IF m = "chain" THEN 1..(ChainLen + 1) ELSE 1..NumUris

RECURSIVE SeqsUpTo(_, _)
SeqsUpTo(S, n) ==
    IF n = 0 THEN {<<>>}
    ELSE LET shorter == SeqsUpTo(S, n - 1)
         IN  shorter \cup {Append(s, x) : s \in {t \in shorter : Len(t) = n - 1}, x \in S}

\* Bodies a server sends: plain content, or gzip-compressed content.
WireBodies(m) ==
    IF m # "any" THEN {<<0>>}
    ELSE LET plain == SeqsUpTo({0}, MaxBodyLen)
         IN  plain \cup {<<2>> \o b : b \in {c \in plain : Len(c) < MaxBodyLen}}

Locations(m, u) ==
    IF m = "chain" THEN {u, NoLocation} \cup (IF u <= ChainLen THEN {u + 1} ELSE {})
    ELSE Uris(m) \cup {NoLocation}

HeaderEncodings(m) ==
    IF m # "any" THEN {NoHeader} ELSE {NoHeader, <<"gzip">>}

ContentTypes(m) ==
    IF m # "any" THEN {[mediaType |-> "text/html", charset |-> "utf-8"]}
    ELSE {[mediaType |-> "text/html", charset |-> "utf-8"],
          [mediaType |-> "text/html", charset |-> "x-made-up"],
          [mediaType |-> "null", charset |-> "null"]}

StatusCodes == validRedirects \cup {200}

\* Responses of the server at u: a redirect status with or without a Location
\* header, or any other status with its content headers.
Responses(m, u) ==
    [statusCode : validRedirects, location : Locations(m, u),
     contentEncoding : {NoHeader}, contentType : {[mediaType |-> "null", charset |-> "null"]}]
    \cup
    [statusCode : StatusCodes \ validRedirects, location : {NoLocation},
     contentEncoding : HeaderEncodings(m), contentType : ContentTypes(m)]

NoResponse == [statusCode |-> 0]

\* customOptions.maxRedirects of the constructed instance (0: not given).
CustomMaxRedirects(m) ==
    IF m = "any" THEN {0, 2} ELSE IF m = "live" THEN {0, 1, 2} ELSE {0}

\* Tokens between the commas of a Content-Encoding declaration.
RawTokens == {"br", " br", "gzip", " gzip", "deflate", "", "x-unknown", "constructor"}

Declarations == {NoHeader} \cup (SeqsUpTo(RawTokens, MaxTokens) \ {<<>>})

\* Buffers: plain content under up to MaxLen compression layers.
RECURSIVE Layered(_)
Layered(n) ==
    IF n = 0 THEN {<<>>}
    ELSE LET inner == Layered(n - 1)
         IN  inner \cup {<<m>> \o b : m \in 0..4, b \in {c \in inner : Len(c) = n - 1}}

Buffers == {b \in Layered(MaxLen) :
               \A i \in 1..Len(b) : b[i] = 0 => \A j \in i..Len(b) : b[j] = 0}

\* -------------------------------------------------------- RedirectManager
\* add(hop, source): stores/overwrites the predecessor of hop.
RedirectAdd(r, hop, source) == (hop :> source) @@ r

RECURSIVE Walk(_, _, _, _)
Walk(r, target, acc, fuel) ==
    IF fuel = 0 \/ target \notin DOMAIN r THEN acc
    ELSE Walk(r, r[target], <<r[target]>> \o acc, fuel - 1)

\* calculate(uri): the chain from the earliest recorded ancestor down to uri
\* inclusive; the walk is bounded by the number of stored edges.
calculate(r, u) == Walk(r, u, <<u>>, Cardinality(DOMAIN r))

\* ----------------------------------------------------------- decompression
Brotli == 1
Gzip == 2
Zlib == 3
RawDeflate == 4
Bytes == 0..4

Strip(b, marker) ==
    IF IsBuffer(b) /\ Len(b) > 0 /\ b[1] = marker THEN Tail(b) ELSE Throws

decompressBrotli(b) == Strip(b, Brotli)
decompressGzip(b) == Strip(b, Gzip)
inflateAsync(b) == Strip(b, Zlib)
inflateRawAsync(b) == Strip(b, RawDeflate)

\* inflate: zlib-wrapped when the first two bytes carry the RFC 1950
\* signature, raw deflate otherwise.  An undefined buffer throws on buff[0].
inflate(b) ==
    IF ~IsBuffer(b) THEN Throws
    ELSE IF Len(b) > 0 /\ b[1] = Zlib THEN inflateAsync(b) ELSE inflateRawAsync(b)

\* identity: Buffer.from(buff) copies a Buffer and throws on undefined.
identity(b) == IF IsBuffer(b) THEN b ELSE Throws

Decoder(name, b) ==
    CASE name = "br" -> decompressBrotli(b)
      [] name = "gzip" -> decompressGzip(b)
      [] name = "deflate" -> inflate(b)
      [] OTHER -> identity(b)

\* Mutant: the decoder's exception is not caught.
tryToDecompress_NoCatch(decompressor, content) == Decoder(decompressor, content)

tryToDecompress(decompressor, content) ==
    LET result == Decoder(decompressor, content)
    IN  IF result = Throws THEN Null ELSE result

\* String.prototype.trim on one token of the declaration.
Trim(tok) ==
    CASE tok = " br" -> "br"
      [] tok = " gzip" -> "gzip"
      [] tok = " deflate" -> "deflate"
      [] OTHER -> tok

functions == <<"br", "gzip", "deflate", "identity">>

\* typeof priorities[key] !== 'undefined': the four own keys, and the keys
\* inherited from Object.prototype ('constructor').
PriorityDefined(key) == key \in {"br", "gzip", "deflate", "identity", "constructor"}

\* functions.slice(priorities[key]): a value that is no number slices from 0.
SliceStart(key) ==
    CASE key = "br" -> 0
      [] key = "gzip" -> 1
      [] key = "deflate" -> 2
      [] key = "identity" -> 3
      [] OTHER -> 0

\* Mutant: only the declared decoder and identity are tried.
decompressors_NoFallback(algorithm) ==
    IF Trim(algorithm) \in {"br", "gzip", "deflate"} THEN <<Trim(algorithm), "identity">>
    ELSE <<"identity">>

decompressors(algorithm) ==
    LET priority == IF ~PriorityDefined(Trim(algorithm)) THEN SliceStart("identity")
                    ELSE SliceStart(algorithm)
    IN  SubSeq(functions, priority + 1, Len(functions))

RECURSIVE Cascade(_, _)
Cascade(ds, content) ==
    IF ds = <<>> THEN Null
    ELSE LET rawBody == tryToDecompress(Head(ds), content)
         IN  IF rawBody # Null THEN rawBody ELSE Cascade(Tail(ds), content)

\* contentEncoding.split(','), or [''] for a null or empty declaration.
Algorithms(contentEncoding) ==
    IF contentEncoding = NoHeader \/ contentEncoding = <<"">> THEN <<"">>
    ELSE contentEncoding

RECURSIVE decompressResponse(_, _)
decompressResponse(contentEncoding, rawBodyResponse) ==
    LET algorithms == Algorithms(contentEncoding)
        rest == Tail(algorithms)
        rawBody == Cascade(decompressors(Trim(Head(algorithms))), rawBodyResponse)
    IN  IF rawBody # Null /\ Len(rest) > 0
        THEN decompressResponse(rest, rawBody)
        ELSE rawBody


\* ------------------------------------------------------- charset decoding
\* iconv.encodingExists(charset)
encodingExists(charset) == charset \in {"utf-8", "utf-16le", "latin1"}

\* iconv.decode(rawBody, charset): one character (code 100 + byte) per byte.
decode(rawBody, charset) == [i \in 1..Len(rawBody) |-> 100 + rawBody[i]]

\* `x || ''` on a possibly null string of the content resolver.
OrEmpty(x) == IF x = "null" THEN "" ELSE x

\* ------------------------------------------------------------------ state
VARIABLES
    mode,             \* environment: "any", "chain", "live", "decode" or "construct"
    customOptions,    \* argument of the constructor
    options,          \* Requester._options
    maxRedirects,     \* Requester._maxRedirects
    redirects,        \* Requester._redirects: hop -> source
    pc,               \* position of the running get call
    uri,              \* argument of the running get call
    uriString,        \* argument of the innermost getUri
    requestedUrls,    \* the Set of this get call
    requests,         \* requests issued by this get call, in order
    newUri,           \* resolved redirect target of the last callback
    resolverCalls,    \* the bytes getContentTypeData was called with in this get call
    wire,             \* body bytes the transport delivers for this response
    pending,          \* body bytes not yet delivered
    byteChunks,       \* chunks pushed by the 'data' handler
    rawBodyResponse,  \* set by the 'end' handler
    outcome,          \* "none", "resolved" or the failure the promise rejected with
    result,           \* the NetworkData the promise resolved with
    contentEncoding,  \* direct call of decompressResponse: its declaration
    rawInput,         \* direct call of decompressResponse: its buffer
    decoded           \* direct call of decompressResponse: its return value

vars == <<mode, customOptions, options, maxRedirects, redirects, pc, uri, uriString,
          requestedUrls, requests, newUri, resolverCalls, wire, pending, byteChunks,
          rawBodyResponse, outcome, result, contentEncoding, rawInput, decoded>>

configVars == <<mode, customOptions, options, maxRedirects>>
callVars == <<uri, uriString, requestedUrls, requests, newUri, resolverCalls>>
streamVars == <<wire, pending, byteChunks, rawBodyResponse>>
decodeVars == <<contentEncoding, rawInput, decoded>>

NoResult == [statusCode |-> 0]
NotRun == << -4 >>

\* ------------------------------------------------------------ constructor
\* An options object is a function from option names to values; an option the
\* object does not have is outside its domain.
EmptyObject == [k \in {} |-> ""]

DefaultHeaders ==
    [k \in {"Accept-Encoding", "Accept-Language", "Cache-Control", "DNT", "Pragma",
            "User-Agent"} |->
        CASE k = "Accept-Encoding" -> "gzip, deflate, br"
          [] k = "Accept-Language" -> "en-US,en;q=0.8,es;q=0.6,fr;q=0.4"
          [] k = "Cache-Control" -> "no-cache"
          [] k = "DNT" -> "1"
          [] k = "Pragma" -> "no-cache"
          [] k = "User-Agent" -> "Mozilla/5.0"]

defaults ==
    [encoding |-> "null",
     followRedirect |-> "false",
     headers |-> DefaultHeaders,
     jar |-> "true",
     time |-> "true",
     timeout |-> "10000"]

\* String.prototype.toLowerCase on the header names of the model.
ToLowerCase(name) ==
    CASE name = "Accept-Encoding" -> "accept-encoding"
      [] name = "ACCEPT-Encoding" -> "accept-encoding"
      [] name = "Accept-Language" -> "accept-language"
      [] name = "Cache-Control" -> "cache-control"
      [] name = "DNT" -> "dnt"
      [] name = "Pragma" -> "pragma"
      [] name = "User-Agent" -> "user-agent"
      [] name = "X-Custom" -> "x-custom"
      [] OTHER -> name

toLowerCaseKeys(headers) ==
    [k \in {ToLowerCase(name) : name \in DOMAIN headers} |->
        headers[CHOOSE name \in DOMAIN headers : ToLowerCase(name) = k]]

\* Object.assign({}, target, source): the source's own options win.
ObjectAssign(target, source) == source @@ target

Has(object, key) == key \in DOMAIN object

\* The caller's configuration: absent, or an object.
NoCustomOptions == [given |-> FALSE, object |-> EmptyObject]
Custom(object) == [given |-> TRUE, object |-> object]

\* constructor: customOptions.maxRedirects || this._maxRedirects
Constructor(customMaxRedirects) ==
    IF customMaxRedirects # 0 THEN customMaxRedirects ELSE DefaultMaxRedirects

MaxRedirectsOf(co) ==
    IF co.given
    THEN Constructor(IF Has(co.object, "maxRedirects") THEN co.object.maxRedirects ELSE 0)
    ELSE DefaultMaxRedirects

\* The assignments the constructor makes on a given customOptions.
Forced(object) ==
    LET forced == ("followRedirect" :> "false") @@ ("rejectUnauthorized" :> "false") @@ object
    IN  IF Has(object, "headers")
        THEN ("headers" :> ObjectAssign(toLowerCaseKeys(defaults.headers),
                                        toLowerCaseKeys(object.headers))) @@ forced
        ELSE forced

\* options = Object.assign({}, defaults, customOptions)
OptionsOf(co) ==
    IF co.given THEN ObjectAssign(defaults, Forced(co.object)) ELSE defaults

\* The configuration of the instance of a fetching specification.
WithMaxRedirects(c) == IF c = 0 THEN NoCustomOptions ELSE Custom("maxRedirects" :> c)

Constructed(co) ==
    /\ customOptions = co
    /\ options = OptionsOf(co)
    /\ maxRedirects = MaxRedirectsOf(co)

NoCall ==
    /\ uri = NoUri
    /\ uriString = NoUri
    /\ requestedUrls = {}
    /\ requests = <<>>
    /\ newUri = NoUri
    /\ wire = <<>>
    /\ pending = <<>>
    /\ byteChunks = <<>>
    /\ rawBodyResponse = Undefined
    /\ outcome = "none"
    /\ result = NoResult
    /\ resolverCalls = <<>>

IdleCall == pc = "idle" /\ NoCall

NoDecodeCall ==
    /\ contentEncoding = NoHeader
    /\ rawInput = Undefined
    /\ decoded = NotRun

InitFor(m) ==
    /\ mode = m
    /\ \E c \in CustomMaxRedirects(m) : Constructed(WithMaxRedirects(c))
    /\ redirects = <<>>
    /\ IdleCall
    /\ NoDecodeCall

Init == InitFor("any")
InitChain == InitFor("chain")

\* ---------------------------------------------------------------- get(uri)
IsDataUri(u) == u = DataUri

\* getUri(uriString) up to the point where the request is sent.
StartGetUri(u) ==
    /\ uriString' = u
    /\ requestedUrls' = requestedUrls \cup {u}
    /\ requests' = Append(requests, u)
    /\ wire' = <<>>
    /\ pending' = <<>>
    /\ byteChunks' = <<>>
    /\ rawBodyResponse' = Undefined
    /\ pc' = "requesting"

\* get(uri) on a network URI.  The calls on the instance run one after another:
\* a call starts when no other call is pending.
Get(u) ==
    /\ pc \in {"idle", "done"}
    /\ ~IsDataUri(u)
    /\ uri' = u
    /\ uriString' = u
    /\ requestedUrls' = {u}
    /\ requests' = <<u>>
    /\ newUri' = NoUri
    /\ resolverCalls' = <<>>
    /\ wire' = <<>>
    /\ pending' = <<>>
    /\ byteChunks' = <<>>
    /\ rawBodyResponse' = Undefined
    /\ pc' = "requesting"
    /\ outcome' = "none"
    /\ result' = NoResult
    /\ UNCHANGED <<configVars, redirects, decodeVars>>

\* parseDataURL of the one data URI of the model.
parseDataURL(u) ==
    [body |-> <<0, 0>>,
     mimeType |-> [essence |-> "text/plain", parameters |-> [charset |-> "utf-8"]]]

\* mimeType.parameters.get(name)
ParametersGet(mimeType, name) ==
    IF name \in DOMAIN mimeType.parameters THEN mimeType.parameters[name] ELSE "null"

\* mimeType.toString(): the serialisation, the essence followed by each
\* parameter as ;name=value.
MimeTypeToString(mimeType) ==
    IF "charset" \in DOMAIN mimeType.parameters
    THEN mimeType.essence \o ";charset=" \o mimeType.parameters.charset
    ELSE mimeType.essence

getResourceNetworkDataFromDataUri(u) ==
    LET parsedDataURL == parseDataURL(u)
    IN  [requestUrl |-> u,
         content |-> parsedDataURL.body,
         rawContent |-> parsedDataURL.body,
         rawResponse |-> parsedDataURL.body,
         charset |-> OrEmpty(ParametersGet(parsedDataURL.mimeType, "charset")),
         hops |-> <<>>,
         mediaType |-> MimeTypeToString(parsedDataURL.mimeType),
         statusCode |-> 200,
         url |-> u]

GetDataUri(u) ==
    /\ pc \in {"idle", "done"}
    /\ IsDataUri(u)
    /\ uri' = u
    /\ uriString' = NoUri
    /\ requestedUrls' = {}
    /\ requests' = <<>>
    /\ newUri' = NoUri
    /\ resolverCalls' = <<>>
    /\ wire' = <<>>
    /\ pending' = <<>>
    /\ byteChunks' = <<>>
    /\ rawBodyResponse' = Undefined
    /\ pc' = "done"
    /\ outcome' = "resolved"
    /\ result' = getResourceNetworkDataFromDataUri(u)
    /\ UNCHANGED <<configVars, redirects, decodeVars>>

\* ------------------------------------------------------- response stream
\* 'response' event: the data and end handlers are attached.
OnResponse(body) ==
    /\ pc = "requesting"
    /\ wire' = body
    /\ pending' = body
    /\ pc' = "streaming"
    /\ UNCHANGED <<configVars, redirects, callVars, byteChunks, rawBodyResponse,
                   outcome, result, decodeVars>>

\* 'data' event: byteChunks.push(data)
OnData(k) ==
    /\ pc = "streaming"
    /\ k \in 1..Len(pending)
    /\ byteChunks' = Append(byteChunks, SubSeq(pending, 1, k))
    /\ pending' = SubSeq(pending, k + 1, Len(pending))
    /\ UNCHANGED <<configVars, redirects, callVars, pc, wire, rawBodyResponse,
                   outcome, result, decodeVars>>

RECURSIVE Concat(_)
Concat(chunks) == IF chunks = <<>> THEN <<>> ELSE Head(chunks) \o Concat(Tail(chunks))

\* Mutant: only the last chunk is kept.
BufferConcat_LastChunk(chunks) == IF chunks = <<>> THEN <<>> ELSE chunks[Len(chunks)]

\* Buffer.concat(byteChunks)
BufferConcat(chunks) == Concat(chunks)

\* 'end' event: rawBodyResponse = Buffer.concat(byteChunks)
OnEnd ==
    /\ pc = "streaming"
    /\ pending = <<>>
    /\ rawBodyResponse' = BufferConcat(byteChunks)
    /\ pc' = "ended"
    /\ UNCHANGED <<configVars, redirects, callVars, wire, pending, byteChunks,
                   outcome, result, decodeVars>>


\* ------------------------------------------------ the request's callback
\* Mutant: the target is compared with nothing that was requested.
HasVisited_Never(visited, target) == FALSE

HasVisited(visited, target) == target \in visited

\* Mutant: the followed redirect is not recorded.
RecordRedirect_Dropped(r, target, source) == r

RecordRedirect(r, target, source) == RedirectAdd(r, target, source)

\* Mutant: the redirect limit is never enforced.
ExceedsLimit_Never(currentRedirectNumber, limit) == FALSE

ExceedsLimit(currentRedirectNumber, limit) == currentRedirectNumber > limit

\* Mutant: a redirect without a Location header is not detected.
MissingLocation_Ignored(response) == FALSE

\* !response.headers.location
MissingLocation(response) == response.location = NoLocation

\* Mutant: the edge of the rejected hop is recorded before the rejection.
RejectedHop_Recorded(r, target, source) == RedirectAdd(r, target, source)

\* The RedirectManager after a hop rejected as a loop: the rejection returns
\* before this._redirects.add.
RejectedHop(r, target, source) == r

\* Mutant: the content resolver is given the wire bytes.
ResolverArgument_Wire(rawBody, wireBytes) == wireBytes

\* The bytes passed to getContentTypeData.
ResolverArgument(rawBody, wireBytes) == rawBody

\* Mutant: the callback may run with a response whose body has not ended.
CallbackEnabled_Early(err, at) == at \in {"requesting", "streaming", "ended"}

\* When the transport invokes the callback: with an error while the request is
\* in flight, with a response once the response's 'end' listeners have run.
CallbackEnabled(err, at) ==
    IF err THEN at \in {"requesting", "streaming"} ELSE at = "ended"

\* url.resolve(uriString, location) of an absolute location.
Resolve(base, location) == location

Hops(r, u) == calculate(r, u)

\* hops[0] || uriString
RequestUrl(hops, u) == IF Len(hops) > 0 THEN hops[1] ELSE u

\* Mutant: the body is decoded whatever the charset.
Body_BestEffort(rawBody, charset) ==
    IF rawBody # Null THEN decode(rawBody, charset) ELSE Null

Body(rawBody, charset) ==
    IF rawBody # Null /\ encodingExists(charset) THEN decode(rawBody, charset) ELSE Null

Settle(how, data) ==
    /\ pc' = "done"
    /\ outcome' = how
    /\ result' = data

Terminal(response) ==
    LET rawBody == decompressResponse(response.contentEncoding, rawBodyResponse)
        contentTypeData == response.contentType
        charset == OrEmpty(contentTypeData.charset)
        mediaType == OrEmpty(contentTypeData.mediaType)
        hops == Hops(redirects, uriString)
        body == Body(rawBody, charset)
    IN  [requestUrl |-> RequestUrl(hops, uriString),
         content |-> body,
         rawContent |-> rawBody,
         rawResponse |-> rawBodyResponse,
         charset |-> charset,
         hops |-> hops,
         mediaType |-> mediaType,
         statusCode |-> response.statusCode,
         url |-> uriString]

\* The callback of this._request: with an error while the request is in
\* flight, or with the response once its body has ended.
RequestCallback(err, response) ==
    /\ CallbackEnabled(err, pc)
    /\ IF err
       THEN /\ Settle("NetworkError", NoResult)
            /\ newUri' = NoUri
            /\ UNCHANGED <<redirects, uri, uriString, requestedUrls, requests,
                           resolverCalls, streamVars>>
       ELSE IF response.statusCode \in validRedirects
       THEN IF MissingLocation(response)
            THEN /\ Settle("MissingLocationError", NoResult)
                 /\ newUri' = NoUri
                 /\ UNCHANGED <<redirects, uri, uriString, requestedUrls, requests,
                                resolverCalls, streamVars>>
            ELSE LET target == Resolve(uriString, response.location)
                     added == RecordRedirect(redirects, target, uriString)
                 IN  /\ newUri' = target
                     /\ IF HasVisited(requestedUrls, target)
                        THEN /\ Settle("RedirectLoopError", NoResult)
                             /\ redirects' = RejectedHop(redirects, target, uriString)
                             /\ UNCHANGED <<uri, uriString, requestedUrls, requests,
                                            resolverCalls, streamVars>>
                        ELSE /\ redirects' = added
                             /\ IF ExceedsLimit(Len(calculate(added, target)), maxRedirects)
                                THEN /\ Settle("TooManyRedirectsError", NoResult)
                                     /\ UNCHANGED <<uri, uriString, requestedUrls,
                                                    requests, resolverCalls, streamVars>>
                                ELSE /\ StartGetUri(target)
                                     /\ UNCHANGED <<uri, resolverCalls, outcome, result>>
       ELSE /\ Settle("resolved", Terminal(response))
            /\ newUri' = NoUri
            /\ resolverCalls' =
                   Append(resolverCalls,
                          ResolverArgument(decompressResponse(response.contentEncoding,
                                                              rawBodyResponse),
                                           rawBodyResponse))
            /\ UNCHANGED <<redirects, uri, uriString, requestedUrls, requests, streamVars>>
    /\ UNCHANGED <<configVars, decodeVars>>

Next ==
    \/ \E u \in Uris(mode) : Get(u)
    \/ GetDataUri(DataUri)
    \/ \E body \in WireBodies(mode) : OnResponse(body)
    \/ \E k \in 1..MaxBodyLen : OnData(k)
    \/ OnEnd
    \/ RequestCallback(TRUE, NoResponse)
    \/ \E response \in Responses(mode, uriString) : RequestCallback(FALSE, response)

\* getRedirects(uri)
getRedirects(u) == calculate(redirects, u)

Spec == Init /\ [][Next]_vars
SpecChain == InitChain /\ [][Next]_vars

\* ------------------------------------------- every network request completes
InitLive == InitFor("live")

\* The steps of the transport on the request in flight.
Transport ==
    \/ \E body \in WireBodies(mode) : OnResponse(body)
    \/ \E k \in 1..MaxBodyLen : OnData(k)
    \/ OnEnd
    \/ RequestCallback(TRUE, NoResponse)
    \/ \E response \in Responses(mode, uriString) : RequestCallback(FALSE, response)

SpecLive == InitLive /\ [][Next]_vars /\ WF_vars(Transport)

\* ------------------------------------------------------- new Requester(...)
CustomHeaders ==
    {"User-Agent" :> "custom-agent", "ACCEPT-Encoding" :> "identity", "X-Custom" :> "1"}

Choices(key, values) == {EmptyObject} \cup {key :> v : v \in values}

CustomObjects ==
    {a @@ b @@ c @@ d :
        a \in Choices("followRedirect", {"true", "false"}),
        b \in Choices("rejectUnauthorized", {"true", "false"}),
        c \in Choices("maxRedirects", {0, 5}),
        d \in Choices("headers", CustomHeaders)}

InitConstruct ==
    /\ mode = "construct"
    /\ customOptions \in {NoCustomOptions} \cup {Custom(object) : object \in CustomObjects}
    /\ options = EmptyObject
    /\ maxRedirects = DefaultMaxRedirects
    /\ redirects = <<>>
    /\ pc = "new"
    /\ NoCall
    /\ NoDecodeCall

\* new Requester(customOptions): the constructor assigns on the caller's
\* object before it merges it over the defaults.
Construct ==
    /\ pc = "new"
    /\ customOptions' =
           IF customOptions.given THEN Custom(Forced(customOptions.object))
           ELSE customOptions
    /\ options' = OptionsOf(customOptions)
    /\ maxRedirects' = MaxRedirectsOf(customOptions)
    /\ pc' = "idle"
    /\ UNCHANGED <<mode, redirects, callVars, streamVars, outcome, result, decodeVars>>

NextConstruct == Construct

SpecConstruct == InitConstruct /\ [][NextConstruct]_vars

\* ------------------------------------- decompressResponse called directly
InitDecode ==
    /\ mode = "decode"
    /\ \E c \in CustomMaxRedirects("decode") : Constructed(WithMaxRedirects(c))
    /\ redirects = <<>>
    /\ IdleCall
    /\ contentEncoding \in Declarations
    /\ rawInput \in Buffers \cup {Undefined}
    /\ decoded = NotRun

DecompressResponse ==
    /\ decoded = NotRun
    /\ decoded' = decompressResponse(contentEncoding, rawInput)
    /\ UNCHANGED <<configVars, redirects, pc, callVars, streamVars, outcome, result,
                   contentEncoding, rawInput>>

NextDecode == DecompressResponse

SpecDecode == InitDecode /\ [][NextDecode]_vars



\* ================================================================== claims
NoDuplicates(seq) == \A i, j \in 1..Len(seq) : seq[i] = seq[j] => i = j

Resolved == pc = "done" /\ outcome = "resolved" /\ uri # DataUri

\* C1: when the callback resolves a redirect target that is already in the
\* visited set of the running get call, the call rejects with
\* RedirectLoopError and issues no further request; no URI is requested twice
\* within one call, so a loop A -> B -> A cannot spin.
C1_LoopDetection ==
    /\ [](NoDuplicates(requests))
    /\ [][(pc = "ended" /\ newUri' # NoUri /\ newUri' \in requestedUrls)
            => (pc' = "done" /\ outcome' = "RedirectLoopError" /\ requests' = requests)]_vars

\* A -> B -> A: the second response redirects back to the origin.
C1_Witness ==
    /\ outcome = "RedirectLoopError"
    /\ Len(requests) = 2
    /\ requests[1] # requests[2]
    /\ newUri = requests[1]

\* C2: on an instance with maxRedirects = 10 whose origin has no recorded
\* predecessor, a chain of distinct redirects is rejected with
\* TooManyRedirectsError exactly at the 11th redirect: the 10 redirects before
\* it were followed, so 11 requests were issued.
C2_FailsAtEleventhRedirect ==
    (outcome = "TooManyRedirectsError" /\ maxRedirects = 10 /\ uri \notin DOMAIN redirects)
        => Len(requests) = 11

\* C3: the RedirectManager mapping is acyclic in every reachable state: no
\* URI is its own ancestor.
Ancestors(r, u) ==
    LET chain == Walk(r, u, <<>>, Cardinality(DOMAIN r))
    IN  {chain[i] : i \in 1..Len(chain)}

C3_Acyclic == \A u \in DOMAIN redirects : u \notin Ancestors(redirects, u)

\* C4: a successful non-data-URI call returns as hops the URIs from the first
\* redirect target to the final URI of this call, empty without a redirect.
C4_Hops == Resolved => result.hops = Tail(requests)

\* C5: a successful non-data-URI call returns as requestUrl the URI that was
\* passed to get, whatever the earlier calls on the instance were.
C5_RequestUrl == Resolved => result.requestUrl = uri

\* C6 as stated: after a call that followed A -> B -> C -> D with D terminal,
\* getRedirects(D) is [A, B, C, D].
C6_ChainOfFour == (Resolved /\ Len(requests) = 4) => getRedirects(uriString) = requests

\* C6 as amended: when the origin of the call has no recorded predecessor,
\* getRedirects of the terminal URI is the sequence of URIs the call
\* requested, origin first, terminal URI last.
C6_ChainFromOrigin ==
    (Resolved /\ uri \notin DOMAIN redirects) => getRedirects(uriString) = requests

C6_Witness ==
    /\ Resolved
    /\ uri \notin DOMAIN redirects
    /\ Len(requests) = 4
    /\ getRedirects(uriString) = requests

\* C7: a successful non-data-URI call returns as raw wire bytes a Buffer that
\* is the concatenation, in arrival order, of the chunks the transport
\* delivered for the terminal response, i.e. the body that was sent.
C7_RawWireBytes ==
    Resolved => /\ IsBuffer(result.rawResponse)
                /\ result.rawResponse = Concat(byteChunks)
                /\ result.rawResponse = wire

\* The terminal response followed a redirect, arrived in two different
\* chunks, and was decompressed to something else than the wire bytes.
C7_Witness ==
    /\ Resolved
    /\ Len(requests) = 2
    /\ Len(byteChunks) = 2
    /\ byteChunks[1] # byteChunks[2]
    /\ result.rawContent # result.rawResponse
    /\ result.rawResponse = wire

GzipThenBrotli(b) == Len(b) >= 3 /\ b[1] = Brotli /\ b[2] = Gzip

\* C8: for the declaration 'gzip, br' and a buffer that was gzip-compressed
\* and then brotli-compressed, decompressResponse returns the original bytes.
C8_MultiStage ==
    (decoded # NotRun /\ contentEncoding = <<"gzip", " br">> /\ IsBuffer(rawInput)
       /\ GzipThenBrotli(rawInput))
        => decoded = SubSeq(rawInput, 3, Len(rawInput))

\* C9: for the declaration 'br' and a buffer that is gzip-compressed,
\* decompressResponse returns the gunzipped bytes.
C9_Fallback ==
    (decoded # NotRun /\ contentEncoding = <<"br">> /\ IsBuffer(rawInput)
       /\ Len(rawInput) > 0 /\ rawInput[1] = Gzip)
        => decoded = Tail(rawInput)

C9_Witness ==
    /\ decoded # NotRun
    /\ contentEncoding = <<"br">>
    /\ rawInput = <<Gzip, 0, 0>>
    /\ decoded = <<0, 0>>

\* C10: for every declaration, decompressResponse returns a Buffer when its
\* input is a Buffer, never an exception, and null exactly when the input
\* buffer was unavailable.
C10_NeverFails ==
    decoded # NotRun => /\ decoded # Throws
                        /\ IsBuffer(rawInput) => IsBuffer(decoded)
                        /\ decoded = Null <=> ~IsBuffer(rawInput)

\* A wrong declaration over plain bytes degrades to the identity copy.
C10_Witness ==
    /\ decoded # NotRun
    /\ contentEncoding = <<"gzip", " br">>
    /\ rawInput = <<0, 0>>
    /\ decoded = rawInput

\* C11: a response with a redirect status and no Location header makes the
\* get call fail at once with MissingLocationError for the URI being
\* requested: no further request is issued and no edge is recorded in the
\* RedirectManager.
C11_MissingLocation ==
    [][\A response \in Responses(mode, uriString) :
          (/\ response.statusCode \in validRedirects
           /\ response.location = NoLocation
           /\ RequestCallback(FALSE, response))
          => (/\ pc' = "done"
              /\ outcome' = "MissingLocationError"
              /\ uriString' = uriString
              /\ requests' = requests
              /\ requestedUrls' = requestedUrls
              /\ redirects' = redirects)]_vars

\* The second request of a call is answered by a redirect without Location.
C11_Witness ==
    /\ pc = "done"
    /\ outcome = "MissingLocationError"
    /\ Len(requests) = 2
    /\ DOMAIN redirects = {requests[2]}

\* C12: a get call on the data URI data:text/plain;charset=utf-8,<payload>
\* issues no network request and resolves with statusCode 200, no hops, media
\* type "text/plain", charset "utf-8" and the payload decoded as text.
C12_DataUri ==
    (pc = "done" /\ IsDataUri(uri))
        => /\ outcome = "resolved"
           /\ requests = <<>>
           /\ result.statusCode = 200
           /\ result.hops = <<>>
           /\ result.charset = "utf-8"
           /\ result.mediaType = "text/plain"
           /\ result.content = decode(parseDataURL(uri).body, "utf-8")

\* C13: an unsupported charset is not an error.  A get call that receives a
\* terminal response resolves whatever charset the content resolver returns;
\* the resolved result carries the raw content bytes, and its decoded body is
\* present exactly when the charset names a supported decoding.
C13_UnsupportedCharset ==
    /\ [](Resolved => /\ IsBuffer(result.rawContent)
                      /\ (result.content # Null) = encodingExists(result.charset)
                      /\ (result.content # Null
                             => result.content = decode(result.rawContent, result.charset)))
    /\ [][\A response \in Responses(mode, uriString) :
            (response.statusCode \notin validRedirects /\ RequestCallback(FALSE, response))
                => (pc' = "done" /\ outcome' = "resolved")]_vars

\* A resolved response whose charset is "x-made-up": no decoded body, the raw
\* content populated.
C13_Witness ==
    /\ Resolved
    /\ result.charset = "x-made-up"
    /\ result.content = Null
    /\ Len(result.rawContent) > 0

\* A resolved response without charset: no decoded body either.
C13_WitnessEmpty ==
    /\ Resolved
    /\ result.charset = ""
    /\ result.content = Null
    /\ Len(result.rawContent) > 0

\* C14: however the Requester is constructed, without configuration or with
\* any caller configuration, the options used for requests have followRedirect
\* disabled and certificate verification (rejectUnauthorized) switched off.
C14_ForcedOptions ==
    pc # "new"
        => /\ Has(options, "followRedirect")
           /\ options.followRedirect = "false"
           /\ Has(options, "rejectUnauthorized")
           /\ options.rejectUnauthorized = "false"

DeclaredIndex(token) ==
    CASE token = "br" -> 0
      [] token = "gzip" -> 1
      [] token = "deflate" -> 2
      [] OTHER -> 3

\* C16: for a declared token the cascade attempts the decoders from the
\* token's index to the end of the priority list, in order, and accepts the
\* first that succeeds; unknown or empty tokens start at identity, so that a
\* decoder of higher priority than the declared token is never attempted.
\* Stated for declarations of one token.
C16_StartsAtDeclaredIndex ==
    (decoded # NotRun /\ IsBuffer(rawInput) /\ Len(contentEncoding) = 1)
        => LET token == Trim(Head(contentEncoding))
               attempted == SubSeq(functions, DeclaredIndex(token) + 1, Len(functions))
           IN  decoded = Cascade(attempted, rawInput)

\* C17: in every get call the content resolver (getContentTypeData) is called
\* exactly once, for the terminal response, with the bytes decompression
\* returned; it is not called for a redirect response, nor in a call that
\* fails or is still running.
C17_ResolverOnce ==
    /\ [](IF Resolved THEN resolverCalls = <<result.rawContent>> ELSE resolverCalls = <<>>)
    /\ [][resolverCalls' # resolverCalls /\ resolverCalls' # <<>>
            => /\ pc = "ended" /\ outcome' = "resolved"
               /\ \E response \in Responses(mode, uriString) :
                     /\ response.statusCode \notin validRedirects
                     /\ resolverCalls' =
                           <<decompressResponse(response.contentEncoding, rawBodyResponse)>>]_vars

\* After one redirect, a gzip body was decompressed and the resolver was
\* called once, with the decompressed bytes and not the wire bytes.
C17_Witness ==
    /\ Resolved
    /\ Len(requests) = 2
    /\ wire = <<Gzip, 0>>
    /\ resolverCalls = <<Tail(wire)>>
    /\ resolverCalls # <<result.rawResponse>>

\* C18: a get call fails with TooManyRedirectsError only if the redirects of
\* that call itself exceed maxRedirects, whatever earlier get calls on the
\* instance recorded.  The chain of the call alone, from its first request to
\* the rejected target, has Len(requests) + 1 entries.
C18_OnlyOwnRedirects ==
    (pc = "done" /\ outcome = "TooManyRedirectsError") => Len(requests) + 1 > maxRedirects

\* C19: every get call terminates, resolved or rejected with one failure,
\* provided each network request completes; and one get call issues at most
\* maxRedirects + 1 network requests, whatever the redirect responses and
\* whatever redirect history the instance holds.
C19_Terminates ==
    /\ [](Len(requests) <= maxRedirects + 1)
    /\ [](pc = "done" => outcome # "none")
    /\ (pc \in {"requesting", "streaming", "ended"}) ~> (pc = "done")

\* A call on an instance limited to 2 redirects ended, rejected at its second
\* redirect, after two requests.
C19_Witness ==
    /\ pc = "done"
    /\ maxRedirects = 2
    /\ Len(requests) = 2
    /\ outcome = "TooManyRedirectsError"
    /\ newUri \notin {requests[1], requests[2]}

\* C20: when a get call fails with RedirectLoopError, the rejected hop leaves
\* the RedirectManager as it was (the visited-set check runs before the edge
\* is recorded), while the edges of the hops followed earlier in the same
\* call remain recorded.
C20_LoopLeavesRedirects ==
    /\ [][outcome' = "RedirectLoopError" /\ outcome = "none"
            => /\ redirects' = redirects
               /\ newUri' \in requestedUrls]_vars
    /\ [](outcome = "RedirectLoopError"
            => \A i \in 2..Len(requests) :
                  /\ requests[i] \in DOMAIN redirects
                  /\ redirects[requests[i]] = requests[i - 1])

\* A -> B -> C -> B: the hops to B and C are recorded, the rejected hop back
\* to B did not overwrite B's predecessor.
C20_Witness ==
    /\ pc = "done"
    /\ outcome = "RedirectLoopError"
    /\ Len(requests) = 3
    /\ newUri = requests[2]
    /\ redirects[requests[2]] = requests[1]
    /\ redirects[requests[3]] = requests[2]
====
